---- MODULE Spec2Model ----
(***************************************************************************)
(* Shared-state server of the captive portal (Express + Socket.io).        *)
(* The store holds a chat log, a sound log and one canvas value; socket    *)
(* events mutate the store and fan out to the connected sockets; HTTP      *)
(* reads return tails of the store.                                        *)
(***************************************************************************)
EXTENDS Integers, Sequences, FiniteSets, TLC

(* ------------------------------ bounds --------------------------------- *)

\* number of socket ids that may connect during a run
MaxConns == 2

\* number of things the server handles during a run: connections,
\* disconnections, socket events and HTTP reads
MaxSteps == 5

\* number of browser pages running the client script
MaxPages == 2

\* number of user gestures during a run: strokes started, clicks on clear,
\* recordings stopped
MaxActs == 3

\* number of calls of a debounced function during a run
MaxCalls == 3

(* ------------------------- program constants --------------------------- *)

\* "Keep last 100 messages"
MaxMessages == 100

\* "Keep last 30 sounds"
MaxSounds == 30

\* slice(-50) of the message log in GET /api/messages and in init
MessagesTail == 50

\* slice(-20) of the sound log in GET /api/sounds and in init
SoundsTail == 20

\* documented per-clip cap, 1 MiB
MaxClipBytes == 1048576

\* longest encoded recording the client sends, "limit to 1MB"
MaxClientClip == 1000000

\* debounce(handleResize, 250)
ResizeWait == 250

(* --------------------------- JavaScript values ------------------------- *)

NULL == [kind |-> "null"]

UNDEFINED == [kind |-> "undefined"]

Str(s) == [kind |-> "string", val |-> s]

\* !!v for the values above
Truthy(v) == v.kind = "string" /\ v.val # ""

\* Array.prototype.slice(-k): start = max(length - k, 0)
SliceLast(arr, k) ==
    LET start == IF Len(arr) - k < 0 THEN 0 ELSE Len(arr) - k
    IN  [i \in 1..(Len(arr) - start) |-> arr[start + i]]

Whitespace == {" "}

\* String.prototype.trim on a string held as a sequence of characters
RECURSIVE TrimLeft(_)
TrimLeft(s) ==
    IF s # <<>> /\ Head(s) \in Whitespace THEN TrimLeft(Tail(s)) ELSE s

RECURSIVE TrimRight(_)
TrimRight(s) ==
    IF s # <<>> /\ s[Len(s)] \in Whitespace
    THEN TrimRight(SubSeq(s, 1, Len(s) - 1))
    ELSE s

Trim(s) == TrimRight(TrimLeft(s))

(* ------------------------------- inputs -------------------------------- *)

Conns == 1..MaxConns

\* message i of a log filled by an earlier client
OldMessage(i) == [id |-> i, name |-> <<"o", "l", "d">>, text |-> <<"o">>]

\* clip i of a log filled by an earlier client
OldSound(i) == [id |-> i, name |-> "anonymous", size |-> 1000]

\* payloads a client can put in chat:message; NULL is a malformed event
ChatPayloads ==
    { [id |-> 1, name |-> <<"a", "l", "i", "c", "e">>, text |-> <<"h", "i">>],
      [id |-> 2, name |-> <<"b", "o", "b">>, text |-> <<" ">>],
      NULL }

\* payloads a client can put in noise:add; size is the length of the data
NoisePayloads ==
    { [id |-> 1, name |-> "anonymous", size |-> MaxClipBytes],
      [id |-> 2, name |-> "anonymous", size |-> 2 * MaxClipBytes],
      NULL }

\* payloads a client can put in canvas:update; UNDEFINED is an event sent
\* without a payload
CanvasPayloads == { Str("P"), Str("Q"), Str(""), UNDEFINED }

\* how far below their caps the logs left behind by earlier clients are;
\* Empty stands for the logs of a server that has just started
Empty == MaxMessages

Fills == {1, Empty}

Filled(cap, below) == IF below >= cap THEN 0 ELSE cap - below

(* -------------------------------- state -------------------------------- *)

VARIABLES
    state,          \* the in-memory store {messages, sounds, canvasData}
    connected,      \* socket ids with an open connection
    disconnected,   \* socket ids whose connection has ended
    delivered,      \* per socket id, the events the server emitted to it
    phase,          \* "starting" (before listen), "listening", "crashed"
                    \* (uncaught exception) or "failed" (listen error)
    response,       \* body of the last HTTP response
    lastEvent,      \* history: the last socket event handled, 'connection'
                    \* and 'disconnect' included
    processed,      \* history: number of steps the server has taken
    accepted,       \* history: every message pushed on the message log
    acceptedSounds, \* history: every clip pushed on the sound log
    failedAt,       \* per socket id, 0 or the step at which its beside
                    \* stopped receiving
    shutdown,       \* "no", "closing" (server.close called) or "closed" (its
                    \* callback has run)
    backend,        \* the server of backend/server.js, given the same
                    \* connections and events: its store, sockets and
                    \* emitted events
    debounced       \* the function debounce(func, wait) returns: its
                    \* timeout, the clock, and the history of its calls and
                    \* of the invocations of func

\* one browser page running the client script, per page
VARIABLES
    socketId,         \* id of the page's current or last socket, 0 before any
    clientConnected,  \* the client's state.connected
    drawing,          \* the client's state.drawing
    canvas,           \* pixels of the page's canvas: the strokes painted on it
    loading,          \* images whose onload has not run yet
    seen,             \* how many events of its socket the page has handled
    emitted,          \* every event the page's socket sent, oldest first
    taken,            \* how many of them have reached the server or were lost
    reading,          \* length of the recording its FileReader is encoding,
                      \* 0 when it has nothing to encode
    notice,           \* text of the last notification shown
    acts,             \* history: number of user gestures so far
    chatMessages,     \* children of the #chatMessages container
    messageInput,     \* value of #messageInput
    nameInput,        \* value of #nameInput
    recording,        \* the client's state.recording
    mediaRecorder,    \* the client's state.mediaRecorder: 0 for null, or the
                      \* number of a recorder
    recorders,        \* state of every MediaRecorder the page has made
    awaiting,         \* startRecording calls waiting for getUserMedia
    recordBtn         \* "enabled" or "disabled"

serverVars == << state, connected, disconnected, delivered, phase, response,
                 lastEvent, processed, accepted, acceptedSounds >>

chatVars == << chatMessages, messageInput, nameInput >>

recVars == << recording, mediaRecorder, recorders, awaiting, recordBtn >>

clientVars == << socketId, clientConnected, drawing, canvas, loading, seen,
                 emitted, taken, reading, notice, acts, chatVars, recVars >>

beside == << failedAt, shutdown, backend, debounced >>

vars == << serverVars, beside, clientVars >>

outside == << beside, clientVars >>

\* the pages of the shipped client that can be open
Pages == 1..MaxPages

\* no page has been opened
ClientInit ==
    /\ socketId = [p \in Pages |-> 0]
    /\ clientConnected = [p \in Pages |-> FALSE]
    /\ drawing = [p \in Pages |-> FALSE]
    /\ canvas = [p \in Pages |-> <<>>]
    /\ loading = [p \in Pages |-> <<>>]
    /\ seen = [p \in Pages |-> 0]
    /\ emitted = [p \in Pages |-> <<>>]
    /\ taken = [p \in Pages |-> 0]
    /\ reading = [p \in Pages |-> 0]
    /\ notice = [p \in Pages |-> "none"]
    /\ acts = 0
    /\ chatMessages = [p \in Pages |-> <<>>]
    /\ messageInput = [p \in Pages |-> <<>>]
    /\ nameInput = [p \in Pages |-> <<>>]
    /\ recording = [p \in Pages |-> FALSE]
    /\ mediaRecorder = [p \in Pages |-> 0]
    /\ recorders = [p \in Pages |-> <<>>]
    /\ awaiting = [p \in Pages |-> 0]
    /\ recordBtn = [p \in Pages |-> "enabled"]

NoTimeout == [due |-> 0, args |-> "none"]

NoEvent == [seq |-> 0, type |-> "none", from |-> 0, payload |-> NULL]

NoResponse == [route |-> "none", body |-> NULL]

Init ==
    /\ \E below \in Fills :
          LET k == Filled(MaxMessages, below)
              j == Filled(MaxSounds, below)
          IN
          /\ state = [messages |-> [i \in 1..k |-> OldMessage(i)],
                      sounds |-> [i \in 1..j |-> OldSound(i)],
                      canvasData |-> NULL]
          /\ accepted = [i \in 1..k |-> OldMessage(i)]
          /\ acceptedSounds = [i \in 1..j |-> OldSound(i)]
    /\ connected = {}
    /\ disconnected = {}
    /\ delivered = [c \in Conns |-> <<>>]
    /\ phase = "listening"
    /\ response = NoResponse
    /\ lastEvent = NoEvent
    /\ processed = 0
    /\ failedAt = [c \in Conns |-> 0]
    /\ shutdown = "no"
    /\ backend = [messages |-> state.messages,
                  canvasData |-> NULL,
                  connected |-> {},
                  delivered |-> [c \in Conns |-> <<>>],
                  phase |-> "listening",
                  received |-> 0]
    /\ debounced = [now |-> 0, timeout |-> NoTimeout, calls |-> <<>>,
                    invoked |-> <<>>]
    /\ ClientInit

(* ----------------------------- the store -------------------------------- *)

\* mutant: the handler puts the message at the head of the log (unshift for
\* push)
AppendMessageUnshift(messages, message) ==
    LET pushed == <<message>> \o messages
    IN  IF Len(pushed) > MaxMessages
        THEN SubSeq(pushed, Len(pushed) - MaxMessages + 1, Len(pushed))
        ELSE pushed

\* mutant: the trim keeps the oldest 100 instead of the newest
AppendMessageKeepOldest(messages, message) ==
    LET pushed == Append(messages, message)
    IN  IF Len(pushed) > MaxMessages
        THEN SubSeq(pushed, 1, MaxMessages)
        ELSE pushed

\* state.messages.push(message), then keep the last 100
AppendMessage(messages, message) ==
    LET pushed == Append(messages, message)
    IN  IF Len(pushed) > MaxMessages
        THEN SliceLast(pushed, MaxMessages)
        ELSE pushed

\* mutant: the trim runs one push late
AppendSoundLateTrim(sounds, sound) ==
    LET pushed == Append(sounds, sound)
    IN  IF Len(pushed) > MaxSounds + 1
        THEN SliceLast(pushed, MaxSounds)
        ELSE pushed

\* state.sounds.push(sound), then keep the last 30
AppendSound(sounds, sound) ==
    LET pushed == Append(sounds, sound)
    IN  IF Len(pushed) > MaxSounds
        THEN SliceLast(pushed, MaxSounds)
        ELSE pushed

\* mutant: init carries the whole logs
InitPayloadWholeLogs(st) ==
    [messages |-> st.messages,
     sounds |-> st.sounds,
     canvasData |-> st.canvasData]

\* the object passed to socket.emit('init', ...)
InitPayload(st) ==
    [messages |-> SliceLast(st.messages, MessagesTail),
     sounds |-> SliceLast(st.sounds, SoundsTail),
     canvasData |-> st.canvasData]

(* ------------------------------ fan-out -------------------------------- *)

\* socket.emit(...): the socket of the handler alone
SocketEmitTargets(c) == {c}

\* io.emit(...): every connected socket
IoEmitTargets == connected

\* socket.broadcast.emit(...): every connected socket but the sender
SocketBroadcastTargets(c) == connected \ {c}

\* mutant: init goes out with io.emit
InitTargetsEveryone(c) == connected \cup {c}

\* socket.emit('init', ...)
InitTargets(c) == SocketEmitTargets(c)

\* mutant: chat:message goes out with socket.broadcast.emit
ChatTargetsOthersOnly(c) == connected \ {c}

\* io.emit('chat:message', message)
ChatTargets(c) == IoEmitTargets

\* mutant: noise:add goes out with socket.broadcast.emit
NoiseTargetsOthersOnly(c) == connected \ {c}

\* io.emit('noise:add', sound)
NoiseTargets(c) == IoEmitTargets

\* mutant: canvas:update goes out with io.emit
CanvasUpdateTargetsEveryone(c) == connected

\* socket.broadcast.emit('canvas:update', data)
CanvasUpdateTargets(c) == SocketBroadcastTargets(c)

\* io.emit('canvas:clear')
CanvasClearTargets(c) == IoEmitTargets

Event(type, payload) == [type |-> type, payload |-> payload]

\* the sockets whose beside no longer receives
Failed == { c \in Conns : failedAt[c] > 0 }

\* mutant: the emit goes from socket to socket and gives up at the first
\* one that cannot receive
EmitStopAtFailure(targets, ev) ==
    [d \in Conns |->
        IF d \in targets /\ \A f \in (targets \cap Failed) : d < f
        THEN Append(delivered[d], ev)
        ELSE delivered[d]]

\* mutant: a socket gets the newest event ahead of the ones before it
EmitNewestFirst(targets, ev) ==
    [d \in Conns |-> IF d \in targets THEN <<ev>> \o delivered[d]
                                     ELSE delivered[d]]

\* the delivered sequences after emitting ev to targets
Emit(targets, ev) ==
    [d \in Conns |-> IF d \in targets THEN Append(delivered[d], ev)
                                     ELSE delivered[d]]

(* ----------------------------- HTTP reads ------------------------------ *)

\* mutant: the route answers with slice(0, 50)
ApiMessagesFirst50 ==
    SubSeq(state.messages, 1,
           IF Len(state.messages) < MessagesTail THEN Len(state.messages)
                                                 ELSE MessagesTail)

\* GET /api/messages
ApiMessages == SliceLast(state.messages, MessagesTail)

\* mutant: the route answers with the whole sound log
ApiSoundsWholeLog == state.sounds

\* GET /api/sounds
ApiSounds == SliceLast(state.sounds, SoundsTail)

\* mutant: the canvas route answers without looking at the store
ApiCanvasNeverSet == [data |-> NULL]

\* GET /api/canvas
ApiCanvas == [data |-> state.canvasData]

\* GET /health
Health ==
    [status |-> "ok",
     clients |-> Cardinality(connected),
     messages |-> Len(state.messages),
     sounds |-> Len(state.sounds),
     hasCanvas |-> Truthy(state.canvasData)]

(* ------------------------------ actions -------------------------------- *)

Handled(type, c, payload) ==
    /\ lastEvent' = [seq |-> processed + 1, type |-> type, from |-> c,
                     payload |-> payload]
    /\ processed' = processed + 1

\* an exception thrown in a handler is caught nowhere: the process dies
\* and every connection with it
Crash ==
    /\ phase' = "crashed"
    /\ disconnected' = disconnected \cup connected
    /\ connected' = {}
    /\ UNCHANGED << state, delivered, response, accepted, acceptedSounds >>

\* io.on('connection'): a new socket is registered and hydrated; socket ids
\* are handed out in order
Connect(c) ==
    /\ phase = "listening"
    /\ c = Cardinality(connected \cup disconnected) + 1
    /\ processed < MaxSteps
    /\ Handled("connection", c, NULL)
    /\ connected' = connected \cup {c}
    /\ delivered' = [d \in Conns |->
                        IF d \in InitTargets(c)
                        THEN Append(delivered[d], Event("init", InitPayload(state)))
                        ELSE delivered[d]]
    /\ UNCHANGED << state, disconnected, phase, response,
                    accepted, acceptedSounds >>

\* mutant: the disconnect handler wipes the canvas of the client that left
AfterDisconnectWipes(st) == [st EXCEPT !.canvasData = NULL]

\* the store after the disconnect handler, which only logs
AfterDisconnect(st) == st

\* socket.on('disconnect'); a close that reaches a socket already closed
\* finds nothing to remove and runs no handler
Disconnect(c) ==
    /\ phase = "listening"
    /\ c \in connected \cup disconnected
    /\ processed < MaxSteps
    /\ Handled("disconnect", c, NULL)
    /\ connected' = connected \ {c}
    /\ disconnected' = disconnected \cup {c}
    /\ state' = IF c \in connected THEN AfterDisconnect(state) ELSE state
    /\ UNCHANGED << delivered, phase, response, accepted, acceptedSounds >>

\* socket.on('chat:message')
ChatMessage(c, message) ==
    /\ phase = "listening"
    /\ c \in connected
    /\ processed < MaxSteps
    /\ Handled("chat:message", c, message)
    /\ IF message = NULL
       THEN Crash   \* message.name of null throws a TypeError
       ELSE /\ state' = [state EXCEPT
                            !.messages = AppendMessage(state.messages, message)]
            /\ accepted' = Append(accepted, message)
            /\ delivered' = Emit(ChatTargets(c), Event("chat:message", message))
            /\ UNCHANGED << connected, disconnected, phase, response,
                            acceptedSounds >>

\* socket.on('noise:add')
NoiseAdd(c, sound) ==
    /\ phase = "listening"
    /\ c \in connected
    /\ processed < MaxSteps
    /\ Handled("noise:add", c, sound)
    /\ IF sound = NULL
       THEN Crash   \* sound.name of null throws a TypeError
       ELSE /\ state' = [state EXCEPT
                            !.sounds = AppendSound(state.sounds, sound)]
            /\ acceptedSounds' = Append(acceptedSounds, sound)
            /\ delivered' = Emit(NoiseTargets(c), Event("noise:add", sound))
            /\ UNCHANGED << connected, disconnected, phase, response,
                            accepted >>

\* mutant: an update is stored only on an empty canvas
UpdatedCanvasFirstWins(data) ==
    IF state.canvasData = NULL THEN data ELSE state.canvasData

\* the value the canvas:update handler stores
UpdatedCanvas(data) == data

\* socket.on('canvas:update')
CanvasUpdate(c, data) ==
    /\ phase = "listening"
    /\ c \in connected
    /\ processed < MaxSteps
    /\ Handled("canvas:update", c, data)
    /\ state' = [state EXCEPT !.canvasData = UpdatedCanvas(data)]
    /\ delivered' = Emit(CanvasUpdateTargets(c), Event("canvas:update", data))
    /\ UNCHANGED << connected, disconnected, phase, response, accepted,
                    acceptedSounds >>

\* mutant: the clear handler leaves the stored canvas alone
ClearedCanvasStale == state.canvasData

\* the value the canvas:clear handler stores
ClearedCanvas == NULL

\* socket.on('canvas:clear')
CanvasClear(c) ==
    /\ phase = "listening"
    /\ c \in connected
    /\ processed < MaxSteps
    /\ Handled("canvas:clear", c, NULL)
    /\ state' = [state EXCEPT !.canvasData = ClearedCanvas]
    /\ delivered' = Emit(CanvasClearTargets(c), Event("canvas:clear", NULL))
    /\ UNCHANGED << connected, disconnected, phase, response, accepted,
                    acceptedSounds >>

\* mutant: the read takes the entries it returns out of the message log
\* (splice for slice)
HttpGetSplice(route, body) ==
    /\ phase = "listening"
    /\ processed < MaxSteps
    /\ processed' = processed + 1
    /\ response' = [route |-> route, body |-> body]
    /\ state' = [state EXCEPT
                    !.messages =
                       SubSeq(@, 1, Len(@) - Len(SliceLast(@, MessagesTail)))]
    /\ UNCHANGED << connected, disconnected, delivered, phase,
                    lastEvent, accepted, acceptedSounds >>

\* an HTTP read answers with a view of the store
HttpGet(route, body) ==
    /\ phase = "listening"
    /\ processed < MaxSteps
    /\ processed' = processed + 1
    /\ response' = [route |-> route, body |-> body]
    /\ UNCHANGED << state, connected, disconnected, delivered, phase,
                    lastEvent, accepted, acceptedSounds >>

GetMessages == HttpGet("/api/messages", ApiMessages)

GetSounds == HttpGet("/api/sounds", ApiSounds)

GetCanvas == HttpGet("/api/canvas", ApiCanvas)

GetHealth == HttpGet("/health", Health)

\* the server alone, driven by any client whatever: every beside works
\* and no page of the shipped client is open
Next ==
    \/ \E c \in Conns : Connect(c) /\ UNCHANGED outside
    \/ \E c \in Conns : Disconnect(c) /\ UNCHANGED outside
    \/ \E c \in Conns, message \in ChatPayloads :
          ChatMessage(c, message) /\ UNCHANGED outside
    \/ \E c \in Conns, sound \in NoisePayloads :
          NoiseAdd(c, sound) /\ UNCHANGED outside
    \/ \E c \in Conns, data \in CanvasPayloads :
          CanvasUpdate(c, data) /\ UNCHANGED outside
    \/ \E c \in Conns : CanvasClear(c) /\ UNCHANGED outside
    \/ GetMessages /\ UNCHANGED outside
    \/ GetSounds /\ UNCHANGED outside
    \/ GetCanvas /\ UNCHANGED outside
    \/ GetHealth /\ UNCHANGED outside

Spec == Init /\ [][Next]_vars

(* ------------------------- start and restart -------------------------- *)

\* the store a process starts with
FreshState == [messages |-> <<>>, sounds |-> <<>>, canvasData |-> NULL]

\* a server that has just started and is listening
FreshStart == Init /\ state = FreshState

\* mutant: the store outlives the process
StoreAfterRestartKept(st) == st

\* the store of the process that replaces one holding st
StoreAfterRestart(st) == FreshState

\* mutant: the listen error is handled and the process carries on
ListenOutcomeCarriesOn(bound) == "listening"

\* server.listen has no 'error' listener: the error event of a bound port
\* is thrown and ends the process
ListenOutcome(bound) == IF bound THEN "failed" ELSE "listening"

\* server.listen(PORT, '0.0.0.0'), on a port that is bound or free
Listen(bound) ==
    /\ phase = "starting"
    /\ phase' = ListenOutcome(bound)
    /\ lastEvent' = [seq |-> processed, type |-> "listen", from |-> 0,
                     payload |-> IF bound THEN Str("EADDRINUSE") ELSE NULL]
    /\ UNCHANGED << state, connected, disconnected, delivered, response,
                    processed, accepted, acceptedSounds >>

\* the process ends, whatever it was doing, and a new one is started: every
\* socket is gone and the module is evaluated again
Restart ==
    /\ phase # "starting"
    /\ processed < MaxSteps
    /\ Handled("restart", 0, NULL)
    /\ phase' = "starting"
    /\ state' = StoreAfterRestart(state)
    /\ accepted' = <<>>
    /\ acceptedSounds' = <<>>
    /\ disconnected' = disconnected \cup connected
    /\ connected' = {}
    /\ UNCHANGED << delivered, response >>

\* a process that has been started and not yet called listen
LifeInit ==
    /\ state = FreshState
    /\ accepted = <<>>
    /\ acceptedSounds = <<>>
    /\ connected = {}
    /\ disconnected = {}
    /\ delivered = [c \in Conns |-> <<>>]
    /\ phase = "starting"
    /\ response = NoResponse
    /\ lastEvent = NoEvent
    /\ processed = 0
    /\ failedAt = [c \in Conns |-> 0]
    /\ shutdown = "no"
    /\ backend = [messages |-> state.messages,
                  canvasData |-> NULL,
                  connected |-> {},
                  delivered |-> [c \in Conns |-> <<>>],
                  phase |-> "listening",
                  received |-> 0]
    /\ debounced = [now |-> 0, timeout |-> NoTimeout, calls |-> <<>>,
                    invoked |-> <<>>]
    /\ ClientInit

LifeNext ==
    \/ \E bound \in BOOLEAN : Listen(bound) /\ UNCHANGED outside
    \/ Restart /\ UNCHANGED outside
    \/ Next

LifeSpec == LifeInit /\ [][LifeNext]_vars

(* ------------------------------ shutdown ------------------------------- *)

\* mutant: the SIGTERM handler logs and does not call server.close
AcceptingAlways == TRUE

\* a server on which close has been called takes no new connection
Accepting == shutdown = "no"

\* process.on('SIGTERM'): server.close(callback)
Sigterm ==
    /\ phase = "listening"
    /\ shutdown = "no"
    /\ shutdown' = "closing"
    /\ lastEvent' = [seq |-> processed, type |-> "SIGTERM", from |-> 0,
                     payload |-> NULL]
    /\ UNCHANGED << state, connected, disconnected, delivered, phase,
                    response, processed, accepted, acceptedSounds, failedAt,
                    backend, debounced, clientVars >>

\* the callback of server.close, run once no connection is left
HttpServerClosed ==
    /\ phase = "listening"
    /\ shutdown = "closing"
    /\ connected = {}
    /\ shutdown' = "closed"
    /\ UNCHANGED << serverVars, failedAt, backend, debounced, clientVars >>

\* the server from start to shutdown, under any client whatever: the
\* sockets it has go on being served after SIGTERM
ShutNext ==
    \/ Sigterm
    \/ HttpServerClosed
    \/ \E c \in Conns : Accepting /\ Connect(c) /\ UNCHANGED outside
    \/ \E c \in Conns : Disconnect(c) /\ UNCHANGED outside
    \/ \E c \in Conns, message \in ChatPayloads :
          ChatMessage(c, message) /\ UNCHANGED outside
    \/ \E c \in Conns, data \in CanvasPayloads :
          CanvasUpdate(c, data) /\ UNCHANGED outside
    \/ \E c \in Conns : CanvasClear(c) /\ UNCHANGED outside
    \/ Accepting /\ GetHealth /\ UNCHANGED outside

\* the callback of server.close is called when the last connection ends
ShutSpec ==
    /\ FreshStart
    /\ [][ShutNext]_vars
    /\ WF_vars(HttpServerClosed)

(* ------------------- the server of backend/server.js ------------------- *)

\* the object passed to socket.emit('init', ...)
BackendInitPayload ==
    [messages |-> SliceLast(backend.messages, 50),
     canvasData |-> backend.canvasData]

\* mutant: the log is never trimmed
BackendPushUntrimmed(message) == Append(backend.messages, message)

\* state.messages.push(message), then keep the last 100
BackendPush(message) ==
    LET pushed == Append(backend.messages, message)
    IN  IF Len(pushed) > 100 THEN SliceLast(pushed, 100) ELSE pushed

\* emits ev to the sockets in targets
BackendEmit(targets, ev) ==
    [d \in Conns |-> IF d \in targets THEN Append(backend.delivered[d], ev)
                                     ELSE backend.delivered[d]]

\* io.on('connection')
BackendConnect(c) ==
    /\ backend.phase = "listening"
    /\ c \notin backend.connected
    /\ backend' = [backend EXCEPT
                      !.connected = @ \cup {c},
                      !.delivered = BackendEmit({c}, Event("init",
                                                           BackendInitPayload)),
                      !.received = @ + 1]

\* socket.on('disconnect')
BackendDisconnect(c) ==
    /\ backend.phase = "listening"
    /\ backend' = [backend EXCEPT !.connected = @ \ {c}, !.received = @ + 1]

\* socket.on('chat:message'); message.name of null throws
BackendChatMessage(c, message) ==
    /\ backend.phase = "listening"
    /\ c \in backend.connected
    /\ backend' =
          IF message = NULL
          THEN [backend EXCEPT !.phase = "crashed", !.connected = {},
                               !.received = @ + 1]
          ELSE [backend EXCEPT
                   !.messages = BackendPush(message),
                   !.delivered = BackendEmit(backend.connected,
                                             Event("chat:message", message)),
                   !.received = @ + 1]

\* socket.on('canvas:update')
BackendCanvasUpdate(c, data) ==
    /\ backend.phase = "listening"
    /\ c \in backend.connected
    /\ backend' = [backend EXCEPT
                      !.canvasData = data,
                      !.delivered = BackendEmit(backend.connected \ {c},
                                                Event("canvas:update", data)),
                      !.received = @ + 1]

\* socket.on('canvas:clear')
BackendCanvasClear(c) ==
    /\ backend.phase = "listening"
    /\ c \in backend.connected
    /\ backend' = [backend EXCEPT
                      !.canvasData = NULL,
                      !.delivered = BackendEmit(backend.connected,
                                                Event("canvas:clear", NULL)),
                      !.received = @ + 1]

\* a noise:add sent to it: no handler is registered for the event
BackendNoiseAdd(c, sound) ==
    /\ backend.phase = "listening"
    /\ c \in backend.connected
    /\ backend.received < MaxSteps
    /\ backend' = [backend EXCEPT !.received = @ + 1]
    /\ UNCHANGED << serverVars, failedAt, shutdown, debounced, clientVars >>

\* what neither server touches
aside == << failedAt, shutdown, debounced, clientVars >>

\* the two servers given the same connections and the same chat and canvas
\* events, and backend/server.js given noise:add events besides
TwinNext ==
    \/ \E c \in Conns : Connect(c) /\ BackendConnect(c) /\ UNCHANGED aside
    \/ \E c \in Conns :
          Disconnect(c) /\ BackendDisconnect(c) /\ UNCHANGED aside
    \/ \E c \in Conns, message \in ChatPayloads :
          ChatMessage(c, message) /\ BackendChatMessage(c, message)
             /\ UNCHANGED aside
    \/ \E c \in Conns, data \in CanvasPayloads :
          CanvasUpdate(c, data) /\ BackendCanvasUpdate(c, data)
             /\ UNCHANGED aside
    \/ \E c \in Conns :
          CanvasClear(c) /\ BackendCanvasClear(c) /\ UNCHANGED aside
    \/ \E c \in Conns, sound \in NoisePayloads : BackendNoiseAdd(c, sound)

TwinSpec == Init /\ [][TwinNext]_vars

(* ------------------------------ debounce ------------------------------- *)

\* arguments a call can carry
CallArgs == {"a", "b"}

\* times that can pass between two things that happen: less than the wait,
\* the wait, or what is left until the pending timeout is due
Delays ==
    {ResizeWait - 1, ResizeWait, debounced.timeout.due - debounced.now}

\* mutant: a call made while a timeout is pending leaves it as it is
RearmedKeepsFirst(wait, args) ==
    IF debounced.timeout # NoTimeout
    THEN debounced.timeout
    ELSE [due |-> debounced.now + wait, args |-> args]

\* clearTimeout(timeout); timeout = setTimeout(later, wait), later holding
\* the arguments of this call
Rearmed(wait, args) == [due |-> debounced.now + wait, args |-> args]

\* the timeout is due now
Due == debounced.timeout # NoTimeout /\ debounced.timeout.due = debounced.now

\* a call of executedFunction(...args); a timeout that is due runs first
Call(args) ==
    /\ Len(debounced.calls) < MaxCalls
    /\ ~Due
    /\ debounced' = [debounced EXCEPT
                        !.timeout = Rearmed(ResizeWait, args),
                        !.calls = Append(@, [at |-> debounced.now,
                                             args |-> args])]
    /\ UNCHANGED << serverVars, failedAt, shutdown, backend, clientVars >>

\* later(): clearTimeout(timeout); func(...args)
Later ==
    /\ Due
    /\ debounced' = [debounced EXCEPT
                        !.timeout = NoTimeout,
                        !.invoked = Append(@, [at |-> debounced.now,
                                               args |-> debounced.timeout.args])]
    /\ UNCHANGED << serverVars, failedAt, shutdown, backend, clientVars >>

\* time passes, up to the moment the pending timeout is due
Elapse(d) ==
    /\ d > 0
    /\ debounced.now + d <= (MaxCalls + 1) * ResizeWait
    /\ debounced.timeout # NoTimeout =>
          debounced.now + d <= debounced.timeout.due
    /\ debounced' = [debounced EXCEPT !.now = @ + d]
    /\ UNCHANGED << serverVars, failedAt, shutdown, backend, clientVars >>

DebounceNext ==
    \/ \E args \in CallArgs : Call(args)
    \/ Later
    \/ \E d \in Delays : Elapse(d)

DebounceSpec == FreshStart /\ [][DebounceNext]_vars

(* ----------------------- transports that fail -------------------------- *)

\* the beside of a connected socket stops receiving
Fail(c) ==
    /\ phase = "listening"
    /\ c \in connected
    /\ failedAt[c] = 0
    /\ failedAt' = [failedAt EXCEPT ![c] = processed + 1]
    /\ UNCHANGED << serverVars, shutdown, backend, debounced, clientVars >>

\* the heartbeat of a socket that no longer receives times out and the
\* server closes it: the disconnect handler runs
PingTimeout(c) ==
    /\ phase = "listening"
    /\ c \in connected \cap Failed
    /\ lastEvent' = [seq |-> processed, type |-> "disconnect", from |-> c,
                     payload |-> Str("ping timeout")]
    /\ connected' = connected \ {c}
    /\ disconnected' = disconnected \cup {c}
    /\ state' = AfterDisconnect(state)
    /\ UNCHANGED << delivered, phase, response, processed, accepted,
                    acceptedSounds, beside, clientVars >>

\* the sockets of a server whose transports can fail, under any client
\* whatever
LiveNext ==
    \/ \E c \in Conns : Fail(c)
    \/ \E c \in Conns : PingTimeout(c)
    \/ \E c \in Conns : Connect(c) /\ UNCHANGED outside
    \/ \E c \in Conns : Disconnect(c) /\ UNCHANGED outside
    \/ \E c \in Conns, message \in ChatPayloads :
          ChatMessage(c, message) /\ UNCHANGED outside
    \/ \E c \in Conns, sound \in NoisePayloads :
          NoiseAdd(c, sound) /\ UNCHANGED outside
    \/ \E c \in Conns, data \in CanvasPayloads :
          CanvasUpdate(c, data) /\ UNCHANGED outside
    \/ \E c \in Conns : CanvasClear(c) /\ UNCHANGED outside

\* a server that has just started; a heartbeat that can time out does time
\* out
LiveSpec ==
    /\ FreshStart
    /\ [][LiveNext]_vars
    /\ \A c \in Conns : WF_vars(PingTimeout(c))

(* ------------------------------ the client ---------------------------- *)

\* canvas.toDataURL(): a PNG data URL, a non-empty string that holds the
\* pixels of the canvas
DataURL(pixels) ==
    [kind |-> "string", val |-> "data:image/png", pixels |-> pixels]

\* the pixels drawImage paints for an image decoded from data
Decode(data) == data.pixels

\* the canvas after page p has stroked a line on it
Painted(pixels, p) ==
    IF pixels # <<>> /\ pixels[Len(pixels)] = p THEN pixels
                                                ELSE Append(pixels, p)

\* lengths of the data URL the FileReader hands to saveRecording
RecordingLengths == { MaxClientClip, MaxClientClip + 1 }

\* mutant: the client checks the length against 10 MB
ClipTooLargeTenTimes(len) == len > 10 * MaxClientClip

\* base64.length > 1000000
ClipTooLarge(len) == len > MaxClientClip

\* socket.emit on the page's socket
ClientEmit(p, type, payload) ==
    emitted' = [emitted EXCEPT ![p] = Append(@, Event(type, payload))]

\* loadCanvasData: the image is decoded in the background and painted by
\* its onload callback
LoadCanvasData(p, data) ==
    loading' = [loading EXCEPT ![p] = Append(@, data)]

\* slice(-20) in renderAllChatMessages
RenderTail == 20

\* children the chat container keeps in appendChatMessage
MaxChatChildren == 20

Placeholder == [class |-> "chat-placeholder"]

\* createChatMessageElement: the element shows the name and the text
CreateChatMessageElement(message) ==
    [class |-> "chat-message", name |-> message.name, text |-> message.text]

\* mutant: every message of init is rendered (no slice)
RenderAllChatMessagesUnsliced(messages) ==
    IF Len(messages) = 0
    THEN << Placeholder >>
    ELSE [i \in 1..Len(messages) |-> CreateChatMessageElement(messages[i])]

\* renderAllChatMessages: the placeholder for an empty log, else one element
\* for each of the last 20 messages
RenderAllChatMessages(messages) ==
    IF Len(messages) = 0
    THEN << Placeholder >>
    ELSE LET tail == SliceLast(messages, RenderTail)
         IN  [i \in 1..Len(tail) |-> CreateChatMessageElement(tail[i])]

\* while (container.children.length > 20) removeChild(firstChild)
RECURSIVE RemoveFirstWhileOver(_)
RemoveFirstWhileOver(children) ==
    IF Len(children) > MaxChatChildren
    THEN RemoveFirstWhileOver(Tail(children))
    ELSE children

\* appendChatMessage: the placeholder goes, the element is appended and
\* the oldest children are removed
AppendChatMessage(children, message) ==
    LET kept == SelectSeq(children, LAMBDA el : el.class # "chat-placeholder")
    IN  RemoveFirstWhileOver(Append(kept, CreateChatMessageElement(message)))

\* mutant: the canvas:update handler does not look at state.drawing
AppliesUpdateWhileDrawing(p, data) == Truthy(data)

\* if (!state.drawing && data) of the canvas:update handler
AppliesUpdate(p, data) == ~drawing[p] /\ Truthy(data)

\* the page's socket connects, or reconnects under a new id: the server
\* registers it and the client's 'connect' handler runs; whatever the socket
\* buffered while it was closed is sent now
PageOpen(p) ==
    /\ socketId[p] \notin connected
    /\ \E c \in Conns :
          /\ Connect(c)
          /\ socketId' = [socketId EXCEPT ![p] = c]
    /\ clientConnected' = [clientConnected EXCEPT ![p] = TRUE]
    /\ seen' = [seen EXCEPT ![p] = 0]
    /\ UNCHANGED << beside, chatVars, recVars,
                    drawing, canvas, loading, emitted, taken,
                    reading, notice, acts >>

\* the page's connection drops: the server's and the client's 'disconnect'
\* handlers run, and what was on the wire is lost
PageClose(p) ==
    /\ socketId[p] \in connected
    /\ Disconnect(socketId[p])
    /\ clientConnected' = [clientConnected EXCEPT ![p] = FALSE]
    /\ taken' = [taken EXCEPT ![p] = Len(emitted[p])]
    /\ UNCHANGED << beside, chatVars, recVars,
                    socketId, drawing, canvas, loading, seen,
                    emitted, reading, notice, acts >>

\* the client handles the next event its socket received: the 'init',
\* 'canvas:update' and 'canvas:clear' handlers act on the canvas
PageRecv(p) ==
    /\ socketId[p] \in connected
    /\ seen[p] < Len(delivered[socketId[p]])
    /\ seen' = [seen EXCEPT ![p] = @ + 1]
    /\ LET ev == delivered[socketId[p]][seen[p] + 1]
       IN  CASE ev.type = "init" ->
                  /\ IF Truthy(ev.payload.canvasData)
                     THEN LoadCanvasData(p, ev.payload.canvasData)
                     ELSE UNCHANGED loading
                  /\ UNCHANGED canvas
             [] ev.type = "canvas:update" ->
                  /\ IF AppliesUpdate(p, ev.payload)
                     THEN LoadCanvasData(p, ev.payload)
                     ELSE UNCHANGED loading
                  /\ UNCHANGED canvas
             [] ev.type = "canvas:clear" ->
                  /\ canvas' = [canvas EXCEPT ![p] = <<>>]
                  /\ UNCHANGED loading
             [] OTHER -> UNCHANGED << canvas, loading >>
    /\ LET ev == delivered[socketId[p]][seen[p] + 1]
       IN  chatMessages' =
              [chatMessages EXCEPT
                  ![p] = CASE ev.type = "init" ->
                                RenderAllChatMessages(ev.payload.messages)
                           [] ev.type = "chat:message" ->
                                AppendChatMessage(@, ev.payload)
                           [] OTHER -> @]
    /\ UNCHANGED << serverVars, beside, socketId, clientConnected, drawing,
                    emitted, taken, reading, notice, acts, messageInput,
                    nameInput, recVars >>

\* img.onload of one of the images being decoded: clearRect, drawImage
ImageLoaded(p, i) ==
    /\ i \in 1..Len(loading[p])
    /\ canvas' = [canvas EXCEPT ![p] = Decode(loading[p][i])]
    /\ loading' = [loading EXCEPT
                      ![p] = SubSeq(@, 1, i - 1) \o SubSeq(@, i + 1, Len(@))]
    /\ UNCHANGED << serverVars, beside, chatVars, recVars,
                    socketId, clientConnected, drawing,
                    seen, emitted, taken, reading, notice, acts >>

\* mousedown on the canvas
StartDrawing(p) ==
    /\ acts < MaxActs
    /\ ~drawing[p]
    /\ acts' = acts + 1
    /\ drawing' = [drawing EXCEPT ![p] = TRUE]
    /\ UNCHANGED << serverVars, beside, chatVars, recVars,
                    socketId, clientConnected, canvas,
                    loading, seen, emitted, taken, reading, notice >>

\* mousemove on the canvas during a stroke
Draw(p) ==
    /\ drawing[p]
    /\ Painted(canvas[p], p) # canvas[p]
    /\ canvas' = [canvas EXCEPT ![p] = Painted(@, p)]
    /\ UNCHANGED << serverVars, beside, chatVars, recVars,
                    socketId, clientConnected, drawing,
                    loading, seen, emitted, taken, reading, notice, acts >>

\* mouseup: stopDrawing, then broadcastCanvas
StopDrawing(p) ==
    /\ drawing[p]
    /\ drawing' = [drawing EXCEPT ![p] = FALSE]
    /\ IF clientConnected[p]
       THEN ClientEmit(p, "canvas:update", DataURL(canvas[p]))
       ELSE UNCHANGED emitted
    /\ UNCHANGED << serverVars, beside, chatVars, recVars,
                    socketId, clientConnected, canvas,
                    loading, seen, taken, reading, notice, acts >>

\* click on the clear button; the pointer has left the canvas, which ends a
\* stroke (mouseout)
ClearCanvas(p) ==
    /\ acts < MaxActs
    /\ ~drawing[p]
    /\ acts' = acts + 1
    /\ IF ~clientConnected[p]
       THEN /\ notice' = [notice EXCEPT ![p] = "not connected to server"]
            /\ UNCHANGED << canvas, emitted >>
       ELSE /\ canvas' = [canvas EXCEPT ![p] = <<>>]
            /\ ClientEmit(p, "canvas:clear", NULL)
            /\ UNCHANGED notice
    /\ UNCHANGED << serverVars, beside, chatVars, recVars,
                    socketId, clientConnected, drawing,
                    loading, seen, taken, reading >>

\* saveRecording, up to reader.readAsDataURL
StartsReader(p, len) ==
    IF ~clientConnected[p]
    THEN /\ notice' = [notice EXCEPT ![p] = "not connected to server"]
         /\ UNCHANGED reading
    ELSE /\ reading' = [reading EXCEPT ![p] = len]
         /\ UNCHANGED notice

\* the 'stop' event of a recorder the user has stopped: saveRecording
SaveRecording(p, len) ==
    /\ acts < MaxActs
    /\ reading[p] = 0
    /\ acts' = acts + 1
    /\ StartsReader(p, len)
    /\ UNCHANGED << serverVars, beside, chatVars, recVars,
                    socketId, clientConnected, drawing,
                    canvas, loading, seen, emitted, taken >>

\* reader.onloadend of saveRecording
ReaderLoaded(p) ==
    /\ reading[p] > 0
    /\ reading' = [reading EXCEPT ![p] = 0]
    /\ IF ClipTooLarge(reading[p])
       THEN /\ notice' = [notice EXCEPT ![p] = "recording too large"]
            /\ UNCHANGED emitted
       ELSE /\ ClientEmit(p, "noise:add",
                          [id |-> acts, name |-> "anonymous",
                           size |-> reading[p]])
            /\ notice' = [notice EXCEPT ![p] = "sound saved"]
    /\ UNCHANGED << serverVars, beside, chatVars, recVars,
                    socketId, clientConnected, drawing,
                    canvas, loading, seen, taken, acts >>

\* the next event the page sent reaches the server, whose handler runs
ServerTake(p) ==
    /\ socketId[p] \in connected
    /\ taken[p] < Len(emitted[p])
    /\ taken' = [taken EXCEPT ![p] = @ + 1]
    /\ LET ev == emitted[p][taken[p] + 1]
       IN  CASE ev.type = "canvas:update" -> CanvasUpdate(socketId[p], ev.payload)
             [] ev.type = "canvas:clear" -> CanvasClear(socketId[p])
             [] ev.type = "noise:add" -> NoiseAdd(socketId[p], ev.payload)
             [] ev.type = "chat:message" -> ChatMessage(socketId[p], ev.payload)
    /\ UNCHANGED << beside, chatVars, recVars,
                    socketId, clientConnected, drawing, canvas,
                    loading, seen, emitted, reading, notice, acts >>

\* what a user can have typed in #messageInput
TypedTexts == { <<>>, <<" ">>, <<" ", "y", "o", " ">> }

\* what a user can have typed in #nameInput
TypedNames == { <<" ">>, <<"z", " ">> }

Anonymous == <<"a", "n", "o", "n", "y", "m", "o", "u", "s">>

\* mutant: the text is sent as typed
SentTextUntrimmed(value) == value

\* text: messageInput.value.trim()
SentText(value) == Trim(value)

\* name: nameInput.value.trim() || 'anonymous'
SentName(value) == IF Trim(value) # <<>> THEN Trim(value) ELSE Anonymous

\* click on send, or Enter in #messageInput, with name and text typed in
\* the two inputs: sendMessage
SendMessage(p, name, text) ==
    /\ acts < MaxActs
    /\ acts' = acts + 1
    /\ nameInput' = [nameInput EXCEPT ![p] = name]
    /\ IF ~clientConnected[p]
       THEN /\ notice' = [notice EXCEPT ![p] = "not connected to server"]
            /\ messageInput' = [messageInput EXCEPT ![p] = text]
            /\ UNCHANGED emitted
       ELSE IF Trim(text) = <<>>
       THEN /\ messageInput' = [messageInput EXCEPT ![p] = text]
            /\ UNCHANGED << emitted, notice >>
       ELSE /\ ClientEmit(p, "chat:message",
                          [id |-> acts', name |-> SentName(name),
                           text |-> SentText(text)])
            /\ messageInput' = [messageInput EXCEPT ![p] = <<>>]
            /\ UNCHANGED notice
    /\ UNCHANGED << serverVars, beside, recVars, socketId, clientConnected,
                    drawing, canvas, loading, seen, taken, reading,
                    chatMessages >>

\* the server with pages of the shipped client that chat, each user
\* sending the same words under the same name
ChatNext ==
    \/ \E p \in Pages : PageOpen(p)
    \/ \E p \in Pages : PageClose(p)
    \/ \E p \in Pages : PageRecv(p)
    \/ \E p \in Pages : SendMessage(p, <<"z", " ">>, <<" ", "y", "o", " ">>)
    \/ \E p \in Pages : ServerTake(p)

ChatSpec == Init /\ [][ChatNext]_vars

\* pages of the shipped client whose users type and send; what the server
\* does with the messages is left out
SendNext ==
    \/ \E p \in Pages : PageOpen(p)
    \/ \E p \in Pages : PageClose(p)
    \/ \E p \in Pages, name \in TypedNames, text \in TypedTexts :
          SendMessage(p, name, text)

SendSpec == FreshStart /\ [][SendNext]_vars

\* the server with pages of the shipped client that draw on the canvas
CanvasNext ==
    \/ \E p \in Pages : PageOpen(p)
    \/ \E p \in Pages : PageClose(p)
    \/ \E p \in Pages : PageRecv(p)
    \/ \E p \in Pages, i \in 1..MaxSteps : ImageLoaded(p, i)
    \/ \E p \in Pages : StartDrawing(p)
    \/ \E p \in Pages : Draw(p)
    \/ \E p \in Pages : StopDrawing(p)
    \/ \E p \in Pages : ClearCanvas(p)
    \/ \E p \in Pages : ServerTake(p)

CanvasSpec == FreshStart /\ [][CanvasNext]_vars

\* the server with pages of the shipped client that record sounds; what a
\* page does with the events it receives is left out, it changes nothing
\* that a recording depends on
RecorderNext ==
    \/ \E p \in Pages : PageOpen(p)
    \/ \E p \in Pages : PageClose(p)
    \/ \E p \in Pages, len \in RecordingLengths : SaveRecording(p, len)
    \/ \E p \in Pages : ReaderLoaded(p)
    \/ \E p \in Pages : ServerTake(p)

RecorderSpec == FreshStart /\ [][RecorderNext]_vars

(* ----------------------------- the recorder ---------------------------- *)

\* the recorders of page p that have been started and not stopped
Running(p) == {r \in 1..Len(recorders[p]) : recorders[p][r] = "recording"}

\* click on the record button: startRecording, up to the await
StartRecording(p) ==
    /\ acts < MaxActs
    /\ recordBtn[p] = "enabled"
    /\ acts' = acts + 1
    /\ awaiting' = [awaiting EXCEPT ![p] = @ + 1]
    /\ UNCHANGED << serverVars, beside, chatVars, socketId, clientConnected,
                    drawing, canvas, loading, seen, emitted, taken, reading,
                    notice, recording, mediaRecorder, recorders, recordBtn >>

\* getUserMedia resolves: the rest of startRecording's try block
MicGranted(p) ==
    /\ awaiting[p] > 0
    /\ awaiting' = [awaiting EXCEPT ![p] = @ - 1]
    /\ recorders' = [recorders EXCEPT ![p] = Append(@, "recording")]
    /\ mediaRecorder' = [mediaRecorder EXCEPT ![p] = Len(recorders[p]) + 1]
    /\ recording' = [recording EXCEPT ![p] = TRUE]
    /\ recordBtn' = [recordBtn EXCEPT ![p] = "disabled"]
    /\ UNCHANGED << serverVars, beside, chatVars, socketId, clientConnected,
                    drawing, canvas, loading, seen, emitted, taken, reading,
                    notice, acts >>

\* getUserMedia rejects: the catch block of startRecording
MicDenied(p) ==
    /\ awaiting[p] > 0
    /\ awaiting' = [awaiting EXCEPT ![p] = @ - 1]
    /\ notice' = [notice EXCEPT ![p] = "microphone access denied"]
    /\ UNCHANGED << serverVars, beside, chatVars, socketId, clientConnected,
                    drawing, canvas, loading, seen, emitted, taken, reading,
                    acts, recording, mediaRecorder, recorders, recordBtn >>

\* stopRecording, called with the flag set or not
StopRecording(p) ==
    /\ acts < MaxActs
    /\ acts' = acts + 1
    /\ IF mediaRecorder[p] # 0 /\ recording[p]
       THEN /\ recorders' = [recorders EXCEPT
                                ![p][mediaRecorder[p]] = "stopping"]
            /\ recording' = [recording EXCEPT ![p] = FALSE]
            /\ recordBtn' = [recordBtn EXCEPT ![p] = "enabled"]
       ELSE UNCHANGED << recorders, recording, recordBtn >>
    /\ UNCHANGED << serverVars, beside, chatVars, socketId, clientConnected,
                    drawing, canvas, loading, seen, emitted, taken, reading,
                    notice, mediaRecorder, awaiting >>

\* the 'stop' event of a recorder that stopRecording has stopped, with the
\* length its recording has once encoded: saveRecording
RecorderStopped(p, r, len) ==
    /\ r \in 1..Len(recorders[p])
    /\ recorders[p][r] = "stopping"
    /\ reading[p] = 0
    /\ recorders' = [recorders EXCEPT ![p][r] = "inactive"]
    /\ StartsReader(p, len)
    /\ UNCHANGED << serverVars, beside, chatVars, socketId, clientConnected,
                    drawing, canvas, loading, seen, emitted, taken, acts,
                    recording, mediaRecorder, awaiting, recordBtn >>

\* pages of the shipped client whose users record, stop and save
RecordingNext ==
    \/ \E p \in Pages : PageOpen(p)
    \/ \E p \in Pages : PageClose(p)
    \/ \E p \in Pages : StartRecording(p)
    \/ \E p \in Pages : MicGranted(p)
    \/ \E p \in Pages : MicDenied(p)
    \/ \E p \in Pages : StopRecording(p)
    \/ \E p \in Pages, r \in 1..MaxActs, len \in RecordingLengths :
          RecorderStopped(p, r, len)
    \/ \E p \in Pages : ReaderLoaded(p)

RecordingSpec == FreshStart /\ [][RecordingNext]_vars

(* ------------------------------- claims -------------------------------- *)

\* the most recent min(n, Len(s)) entries of s, oldest first
LastN(s, n) ==
    LET keep == IF Len(s) < n THEN Len(s) ELSE n
    IN  SubSeq(s, Len(s) - keep + 1, Len(s))

\* the step handled a socket event of this type
Handles(type) == lastEvent' # lastEvent /\ lastEvent'.type = type

\* C1: the message log never holds more than 100 entries, and it is the
\* most recent min(100, n) of the n messages the server accepted, in
\* arrival order.
C1_MessageLogBounded ==
    /\ Len(state.messages) <= MaxMessages
    /\ state.messages = LastN(accepted, MaxMessages)

\* C1 witness: more than 100 messages were accepted, the last one by a
\* chat:message handler, and the log has been cut back to 100.
C1_Witness ==
    /\ Len(accepted) > MaxMessages
    /\ lastEvent.type = "chat:message"
    /\ Len(state.messages) = MaxMessages
    /\ state.messages[MaxMessages] = lastEvent.payload

\* C2: the sound log never holds more than 30 clips, and it is the most
\* recent min(30, n) of the n clips the server accepted, in arrival order.
C2_SoundLogBounded ==
    /\ Len(state.sounds) <= MaxSounds
    /\ state.sounds = LastN(acceptedSounds, MaxSounds)

\* C2 witness: more than 30 clips were accepted, the last one by a noise:add
\* handler, and the log has been cut back to 30.
C2_Witness ==
    /\ Len(acceptedSounds) > MaxSounds
    /\ lastEvent.type = "noise:add"
    /\ Len(state.sounds) = MaxSounds
    /\ state.sounds[MaxSounds] = lastEvent.payload

\* C3: a noise:add whose payload is larger than 1 MiB leaves the sound log
\* as it was and is delivered to no connection.
C3_OversizedNoiseRejected ==
    [][ ( /\ Handles("noise:add")
          /\ lastEvent'.payload # NULL
          /\ lastEvent'.payload.size > MaxClipBytes )
        => ( /\ state'.sounds = state.sounds
             /\ ApiSounds' = ApiSounds
             /\ delivered' = delivered ) ]_vars

\* C4: a chat:message whose text is empty after trimming is dropped: the
\* message log is unchanged and nothing is delivered to any connection.
C4_BlankChatDropped ==
    [][ ( /\ Handles("chat:message")
          /\ lastEvent'.payload # NULL
          /\ Trim(lastEvent'.payload.text) = <<>> )
        => ( /\ state'.messages = state.messages
             /\ delivered' = delivered ) ]_vars

\* C5: a canvas:update sent by connection c is not delivered to c, and is
\* delivered with the same data to every other connection registered when
\* the event is handled.
C5_CanvasUpdateSkipsSender ==
    [][ Handles("canvas:update")
        => LET c == lastEvent'.from
               update == [type |-> "canvas:update",
                          payload |-> lastEvent'.payload]
           IN  /\ delivered'[c] = delivered[c]
               /\ \A d \in connected \ {c} :
                     delivered'[d] = Append(delivered[d], update) ]_vars

\* C5 witness: a canvas:update was handled while another connection was
\* registered, which received it, and the sender received nothing after
\* its init.
C5_Witness ==
    \E c \in Conns : \E d \in connected \ {c} :
        /\ lastEvent.type = "canvas:update"
        /\ lastEvent.from = c
        /\ Len(delivered[c]) = 1
        /\ delivered[d][Len(delivered[d])] =
              [type |-> "canvas:update", payload |-> lastEvent.payload]

\* C6: a canvas:clear sent by connection c empties the stored canvas, so
\* that GET /api/canvas answers {data: null}, and canvas:clear is delivered
\* to every registered connection, c included.
C6_CanvasClearReachesAll ==
    [][ Handles("canvas:clear")
        => /\ state'.canvasData = NULL
           /\ ApiCanvas' = [data |-> NULL]
           /\ lastEvent'.from \in connected
           /\ \A d \in connected :
                 delivered'[d] =
                    Append(delivered[d],
                           [type |-> "canvas:clear", payload |-> NULL]) ]_vars

\* C6 witness: a canvas:clear was handled when the canvas held a drawing
\* and two connections were registered; both received it.
C6_Witness ==
    /\ lastEvent.type = "canvas:clear"
    /\ state.canvasData = NULL
    /\ Cardinality(connected) = 2
    /\ \A d \in connected :
          /\ delivered[d][Len(delivered[d])].type = "canvas:clear"
          /\ \E i \in 1..Len(delivered[d]) :
                delivered[d][i] = [type |-> "canvas:update",
                                   payload |-> Str("P")]

\* C7: a chat:message the server accepts from connection c is delivered
\* unchanged to every registered connection, c included, and right after
\* it GET /api/messages ends with that message.
C7_ChatReachesAll ==
    [][ (Handles("chat:message") /\ phase' = "listening")
        => LET message == lastEvent'.payload
           IN  /\ lastEvent'.from \in connected
               /\ \A d \in connected :
                     delivered'[d] =
                        Append(delivered[d],
                               [type |-> "chat:message", payload |-> message])
               /\ ApiMessages' # <<>>
               /\ ApiMessages'[Len(ApiMessages')] = message ]_vars

\* C7 witness: with two connections registered and a full log, a message
\* was accepted and both connections received it last.
C7_Witness ==
    /\ lastEvent.type = "chat:message"
    /\ phase = "listening"
    /\ Cardinality(connected) = 2
    /\ Len(accepted) > MaxMessages
    /\ \A d \in connected :
          delivered[d][Len(delivered[d])] =
             [type |-> "chat:message", payload |-> lastEvent.payload]

\* C8: a noise:add the server accepts from connection c is delivered
\* unchanged to every registered connection, c included, and the clip is
\* the last element of the sound log.
C8_NoiseReachesAll ==
    [][ (Handles("noise:add") /\ phase' = "listening")
        => LET sound == lastEvent'.payload
           IN  /\ lastEvent'.from \in connected
               /\ \A d \in connected :
                     delivered'[d] =
                        Append(delivered[d],
                               [type |-> "noise:add", payload |-> sound])
               /\ state'.sounds # <<>>
               /\ state'.sounds[Len(state'.sounds)] = sound ]_vars

\* C8 witness: with two connections registered and a full log, a clip was
\* accepted and both connections received it last.
C8_Witness ==
    /\ lastEvent.type = "noise:add"
    /\ phase = "listening"
    /\ Cardinality(connected) = 2
    /\ Len(acceptedSounds) > MaxSounds
    /\ \A d \in connected :
          delivered[d][Len(delivered[d])] =
             [type |-> "noise:add", payload |-> lastEvent.payload]

\* C9: the init a connection receives is the snapshot of the store at the
\* instant it registers (last 50 messages, last 20 clips, the canvas), and
\* nothing that happens later changes it.
C9_InitIsSnapshotAtRegistration ==
    [][ \A c \in Conns :
          /\ (c \notin connected /\ c \in connected')
             => /\ delivered'[c] # <<>>
                /\ Head(delivered'[c]) =
                      [type |-> "init",
                       payload |->
                          [messages |-> LastN(state.messages, MessagesTail),
                           sounds |-> LastN(state.sounds, SoundsTail),
                           canvasData |-> state.canvasData]]
          /\ delivered[c] # <<>>
             => /\ delivered'[c] # <<>>
                /\ Head(delivered'[c]) = Head(delivered[c]) ]_vars

\* C9 witness: two connections registered at different times received
\* different init payloads, one of them the 50-message tail of a longer
\* log, and the store has moved on since.
C9_Witness ==
    \E c \in Conns, d \in Conns :
        /\ delivered[c] # <<>>
        /\ delivered[d] # <<>>
        /\ Head(delivered[c]) # Head(delivered[d])
        /\ Len(Head(delivered[c]).payload.messages) = MessagesTail
        /\ Len(state.messages) > MessagesTail
        /\ Head(delivered[d]).payload.canvasData # state.canvasData

\* C10: every connection that has registered received init exactly once,
\* as its first event, and a connection that has not registered has
\* received nothing, so no init reaches a connection it was not made for.
C10_InitOnceAndFirst ==
    \A c \in Conns :
        IF c \in connected \cup disconnected
        THEN /\ delivered[c] # <<>>
             /\ delivered[c][1].type = "init"
             /\ \A i \in 2..Len(delivered[c]) : delivered[c][i].type # "init"
        ELSE delivered[c] = <<>>

\* C10 witness: a connection received events after its init while a
\* second connection registered.
C10_Witness ==
    \E c \in connected, d \in connected :
        /\ c < d
        /\ Len(delivered[c]) >= 3
        /\ Len(delivered[d]) >= 2

\* the step answered an HTTP read of this route (every other step handles
\* a socket event)
Reads(route) ==
    /\ processed' # processed
    /\ lastEvent' = lastEvent
    /\ response'.route = route

\* the payloads of the events of one type in a delivered sequence, in order
PayloadsOf(events, type) ==
    LET chosen == SelectSeq(events, LAMBDA e : e.type = type)
    IN  [i \in 1..Len(chosen) |-> chosen[i].payload]

\* C11: GET /api/messages answers with the last min(50, n) messages of the
\* log, in arrival order: exactly 50 once more than 50 were appended, and
\* they are the last 50 insertions.
C11_ApiMessagesIsLast50 ==
    /\ ApiMessages = LastN(accepted, MessagesTail)
    /\ Len(ApiMessages) =
          (IF Len(state.messages) < MessagesTail THEN Len(state.messages)
                                                 ELSE MessagesTail)
    /\ response.route = "/api/messages"
       => Len(response.body) <= MessagesTail

\* C11 witness: after more than 100 appends GET /api/messages was answered
\* with 50 entries ending with the message appended last.
C11_Witness ==
    /\ Len(accepted) > MaxMessages
    /\ response.route = "/api/messages"
    /\ Len(response.body) = MessagesTail
    /\ response.body[MessagesTail] = accepted[Len(accepted)]
    /\ response.body[1] = accepted[Len(accepted) - MessagesTail + 1]
    /\ lastEvent.type = "chat:message"

\* C12: GET /api/sounds answers with the last min(20, n) clips of the log
\* in arrival order, and an init sent at the same instant carries the same
\* list.
C12_ApiSoundsIsLast20 ==
    /\ ApiSounds = LastN(acceptedSounds, SoundsTail)
    /\ InitPayload(state).sounds = ApiSounds

\* C12 witness: a clip was added to a full log, a connection registered
\* and GET /api/sounds was answered with the 20 clips its init carries.
C12_Witness ==
    \E c \in connected :
        /\ Len(acceptedSounds) > MaxSounds
        /\ response.route = "/api/sounds"
        /\ Len(response.body) = SoundsTail
        /\ delivered[c][Len(delivered[c])].type = "init"
        /\ delivered[c][Len(delivered[c])].payload.sounds = response.body
        /\ response.body[SoundsTail] = acceptedSounds[Len(acceptedSounds)]

\* C13: the canvas is last-write-wins: a canvas:update stores its data, a
\* canvas:clear stores null, and no other step changes the canvas; it
\* starts as null.
C13_CanvasLastWriteWins ==
    [][ IF Handles("canvas:update")
        THEN state'.canvasData = lastEvent'.payload
        ELSE IF Handles("canvas:clear")
             THEN state'.canvasData = NULL
             ELSE state'.canvasData = state.canvasData ]_vars

\* C13 witness: two updates were stored one after the other, then a chat
\* message was handled, and the canvas holds the second update.
C13_Witness ==
    \E c \in connected :
        \E i \in 1..Len(delivered[c]) : \E j \in 1..Len(delivered[c]) :
            /\ i < j
            /\ delivered[c][i] = [type |-> "canvas:update", payload |-> Str("P")]
            /\ delivered[c][j] = [type |-> "canvas:update", payload |-> Str("Q")]
            /\ lastEvent.type = "chat:message"
            /\ state.canvasData = Str("Q")

\* C14: every step emits at most one event, the same one to each socket
\* that receives it, at the end of what that socket already received; so
\* all sockets see subsequences of one sequence of transitions, and any
\* two transitions two sockets both see come in the same order.
C14_OneOrderForAll ==
    [][ \A c \in Conns : \A d \in Conns :
          LET grewC == delivered'[c] # delivered[c]
              grewD == delivered'[d] # delivered[d]
          IN  /\ grewC => /\ Len(delivered'[c]) = Len(delivered[c]) + 1
                          /\ SubSeq(delivered'[c], 1, Len(delivered[c]))
                                = delivered[c]
              /\ ( /\ grewC
                   /\ grewD
                   /\ c \in connected
                   /\ d \in connected )
                 => delivered'[c][Len(delivered'[c])]
                       = delivered'[d][Len(delivered'[d])] ]_vars

\* C14 witness: two sockets both received the same two different
\* broadcasts, in the same order.
C14_Witness ==
    \E c \in connected : \E d \in connected \ {c} :
        LET n == Len(delivered[c])
            m == Len(delivered[d])
        IN  /\ n >= 3
            /\ m >= 3
            /\ delivered[c][n] = delivered[d][m]
            /\ delivered[c][n - 1] = delivered[d][m - 1]
            /\ delivered[c][n] # delivered[c][n - 1]

\* C15: handlers run to completion: whatever a read or a registration can
\* see, the message log holds at most 100 entries and the sound log at
\* most 30, and every message or clip in the store has already been
\* emitted, so a connected socket's init followed by the broadcasts it
\* received ends like the logs the reads return.
C15_NoIntermediateState ==
    /\ Health.messages <= MaxMessages
    /\ Health.sounds <= MaxSounds
    /\ response.route = "/health"
       => /\ response.body.messages <= MaxMessages
          /\ response.body.sounds <= MaxSounds
    /\ \A c \in connected :
          LET init == delivered[c][1].payload
          IN  /\ LastN(init.messages
                          \o PayloadsOf(delivered[c], "chat:message"),
                       MessagesTail) = ApiMessages
              /\ LastN(init.sounds
                          \o PayloadsOf(delivered[c], "noise:add"),
                       SoundsTail) = ApiSounds

\* C15 witness: GET /health was answered right after a clip was pushed on
\* a full sound log, and it reports 30 clips.
C15_Witness ==
    /\ response.route = "/health"
    /\ lastEvent.type = "noise:add"
    /\ phase = "listening"
    /\ Len(acceptedSounds) > MaxSounds
    /\ response.body.sounds = MaxSounds
    /\ connected # {}

\* C16: an HTTP read changes neither the store, nor the set of registered
\* connections, nor what any connection has received.
C16_ReadsChangeNothing ==
    [][ ( \/ Reads("/health")
          \/ Reads("/api/messages")
          \/ Reads("/api/sounds")
          \/ Reads("/api/canvas") )
        => /\ state' = state
           /\ connected' = connected
           /\ disconnected' = disconnected
           /\ delivered' = delivered ]_vars

\* C16 witness: GET /api/messages was answered for a store that holds
\* messages, clips and a drawing while a connection was registered.
C16_Witness ==
    /\ response.route = "/api/messages"
    /\ response.body # <<>>
    /\ connected # {}
    /\ state.sounds # <<>>
    /\ state.canvasData = Str("P")

\* C17: a chat:message or noise:add without a payload object is dropped
\* and the server carries on: store and deliveries unchanged, every
\* connection still registered, the server still listening.
C17_MalformedEventDropped ==
    [][ ( /\ Handles("chat:message") \/ Handles("noise:add")
          /\ lastEvent'.payload = NULL )
        => /\ state' = state
           /\ delivered' = delivered
           /\ connected' = connected
           /\ phase' = "listening" ]_vars

\* C18: a canvas:update without a payload is rejected: the canvas keeps
\* its value and nothing is delivered to any connection.
C18_EmptyCanvasUpdateRejected ==
    [][ (Handles("canvas:update") /\ lastEvent'.payload = UNDEFINED)
        => /\ state'.canvasData = state.canvasData
           /\ delivered' = delivered ]_vars

\* C19: GET /health reports status ok, the number of registered
\* connections, the lengths of the two logs, and hasCanvas exactly when
\* GET /api/canvas carries data that is not null (an absent data field
\* counts as null here).
C19_HealthMatchesStore ==
    Health = [status |-> "ok",
              clients |-> Cardinality(connected),
              messages |-> Len(state.messages),
              sounds |-> Len(state.sounds),
              hasCanvas |-> ApiCanvas.data \notin {NULL, UNDEFINED}]

\* C20: a disconnect leaves the store alone and takes the connection out
\* of the registry for good: it receives nothing afterwards, and a second
\* disconnect of the same connection changes nothing.
C20_DisconnectIdempotent ==
    [][ /\ \A c \in disconnected :
              /\ c \in disconnected'
              /\ c \notin connected'
              /\ delivered'[c] = delivered[c]
        /\ Handles("disconnect")
           => LET c == lastEvent'.from
              IN  /\ state' = state
                  /\ delivered' = delivered
                  /\ connected' = connected \ {c}
                  /\ disconnected' = disconnected \cup {c}
                  /\ c \in disconnected
                     => /\ connected' = connected
                        /\ disconnected' = disconnected ]_vars

\* C20 witness: socket 1 registered, drew nothing, disconnected twice,
\* then socket 2 registered and its chat message reached socket 2 alone.
C20_Witness ==
    /\ processed = 5
    /\ response = NoResponse
    /\ disconnected = {1}
    /\ connected = {2}
    /\ Len(delivered[1]) = 1
    /\ Len(delivered[2]) = 2
    /\ lastEvent.type = "chat:message"
    /\ state.canvasData = NULL

\* C22: the ids of the messages in the log are strictly increasing in log
\* order (hence pairwise distinct), whichever clients sent them.
C22_IdsStrictlyIncreasing ==
    \A i \in 1..(Len(state.messages) - 1) :
        state.messages[i].id < state.messages[i + 1].id

\* C23: a message is immutable once appended: a step leaves the log as it
\* was or drops its oldest entry, and what is retained keeps its fields and
\* its order at the head of the new log.
C23_MessagesImmutable ==
    [][LET old == state.messages
           new == state'.messages
       IN  \E k \in {0, 1} :
              /\ k <= Len(old)
              /\ Len(new) >= Len(old) - k
              /\ SubSeq(new, 1, Len(old) - k) = SubSeq(old, k + 1, Len(old))]_vars

\* an append evicted the oldest message and the retained ones moved up
\* unchanged
C23_Witness ==
    /\ phase = "listening"
    /\ lastEvent.type = "chat:message"
    /\ Len(accepted) = MaxMessages + 1
    /\ Len(state.messages) = MaxMessages
    /\ state.messages[1] = OldMessage(2)
    /\ state.messages[MaxMessages - 2] = OldMessage(MaxMessages - 1)

\* C24: at any instant the init payload a new connection would get has the
\* messages of GET /api/messages, the sounds of GET /api/sounds and the
\* canvasData that GET /api/canvas returns in its data field.
C24_HydrationEqualsPolling ==
    InitPayload(state) = [messages |-> ApiMessages,
                          sounds |-> ApiSounds,
                          canvasData |-> ApiCanvas.data]

\* a connection was hydrated from a store with a canvas and long logs, and
\* a poll of the canvas then returned what its init carried
C24_Witness ==
    /\ lastEvent.type = "connection"
    /\ Len(state.messages) > MessagesTail
    /\ Len(state.sounds) > SoundsTail
    /\ state.canvasData # NULL
    /\ response.route = "/api/canvas"
    /\ LET inbox == delivered[lastEvent.from]
       IN  /\ inbox # <<>>
           /\ inbox[Len(inbox)].type = "init"
           /\ inbox[Len(inbox)].payload.canvasData = response.body.data
           /\ inbox[Len(inbox)].payload.messages = ApiMessages

\* C30: hydration and live fan-out neither overlap nor leave a gap: for every
\* connection there is a point k in the sequence of accepted messages such
\* that its init holds only messages accepted up to k (the last 50 of them)
\* and its chat:message broadcasts are exactly the messages accepted after
\* k, each once and in order, up to the newest one while it stays
\* connected.  Messages are identified by their place in the sequence of
\* accepted messages.
C30_HydrationNoGapNoDuplicate ==
    \A c \in connected \cup disconnected :
        delivered[c] # <<>> =>
            LET init == Head(delivered[c]).payload.messages
                chats == PayloadsOf(delivered[c], "chat:message")
                latest == Len(accepted) - Len(chats)
            IN  /\ latest >= 0
                /\ \E k \in (IF c \in connected THEN {latest} ELSE 0..latest) :
                      /\ init = LastN(SubSeq(accepted, 1, k), MessagesTail)
                      /\ chats = SubSeq(accepted, k + 1, k + Len(chats))

\* a connection registered after a message had been broadcast to an earlier
\* one; its init carried messages and it then received a broadcast
C30_Witness ==
    \E c \in connected : \E d \in connected :
        /\ delivered[c] # <<>>
        /\ Head(delivered[c]).payload.messages # <<>>
        /\ PayloadsOf(delivered[c], "chat:message") # <<>>
        /\ Len(PayloadsOf(delivered[d], "chat:message"))
              > Len(PayloadsOf(delivered[c], "chat:message"))

\* the noise:add events page p has emitted
NoiseEmitted(p) == PayloadsOf(emitted[p], "noise:add")

\* C27: the client never emits a noise:add whose data is longer than
\* 1,000,000 characters, so every clip it emits is within the 1 MiB cap; a
\* longer recording is discarded with the notice 'recording too large'.
C27_ClientClipWithinCap ==
    /\ [](\A p \in Pages : \A i \in 1..Len(NoiseEmitted(p)) :
            /\ NoiseEmitted(p)[i].size <= 1000000
            /\ NoiseEmitted(p)[i].size <= MaxClipBytes)
    /\ [][\A p \in Pages :
            (reading[p] > 1000000 /\ reading'[p] = 0) =>
                /\ emitted'[p] = emitted[p]
                /\ notice'[p] = "recording too large"]_vars

\* a page sent a recording of exactly 1,000,000 characters, which the server
\* stored, and then discarded one of 1,000,001
C27_Witness ==
    \E p \in Pages :
        /\ Len(NoiseEmitted(p)) = 1
        /\ NoiseEmitted(p)[1].size = 1000000
        /\ taken[p] = Len(emitted[p])
        /\ Len(state.sounds) = 1
        /\ state.sounds[1].size = 1000000
        /\ reading[p] = 0
        /\ notice[p] = "recording too large"

\* C25: the store lives as long as the process: a (re)start leaves both logs
\* empty and the canvas null, and the first init after it carries empty
\* messages, empty sounds and a null canvasData, whatever was stored before.
C25_RestartForgets ==
    [][/\ Handles("restart") =>
             state' = [messages |-> <<>>, sounds |-> <<>>, canvasData |-> NULL]
       /\ (lastEvent.type = "listen" /\ Handles("connection")) =>
             LET inbox == delivered'[lastEvent'.from]
             IN  inbox[Len(inbox)] =
                    Event("init", [messages |-> <<>>, sounds |-> <<>>,
                                   canvasData |-> NULL])]_vars

\* a socket of the process before the restart had been sent a message, and
\* the first socket of the new process got an empty init
C25_Witness ==
    /\ lastEvent.type = "connection"
    /\ lastEvent.from \in connected
    /\ \E d \in disconnected :
          /\ PayloadsOf(delivered[d], "chat:message") # <<>>
          /\ Len(delivered[d]) >= 2
    /\ LET inbox == delivered[lastEvent.from]
       IN  /\ Len(inbox) = 1
           /\ inbox[1].type = "init"
           /\ inbox[1].payload.messages = <<>>

\* C26: when the listen port is already bound at startup the process ends in
\* the fatal state, and in that state no connection of the process is
\* registered and no event or request has been handled by it.
C26_BoundPortIsFatal ==
    /\ [](phase = "failed" =>
            /\ connected = {}
            /\ lastEvent.type = "listen"
            /\ state = [messages |-> <<>>, sounds |-> <<>>, canvasData |-> NULL]
            /\ accepted = <<>>
            /\ acceptedSounds = <<>>)
    /\ [][(Handles("listen") /\ lastEvent'.payload # NULL) =>
             phase' = "failed"]_vars

\* a process was started on a bound port and has ended
C26_Witness ==
    /\ phase = "failed"
    /\ lastEvent.type = "listen"
    /\ lastEvent.payload = Str("EADDRINUSE")

\* C28: when a page handles an init, its canvas comes to show the canvas of
\* that snapshot: it is blank at once when canvasData is null, whatever it
\* held before, and the snapshot image is the last one set to load when
\* canvasData is not null; stated for a page that has no stroke open and
\* has sent nothing yet.
C28_InitSetsCanvas ==
    [][\A p \in Pages :
          (/\ seen'[p] = seen[p] + 1
           /\ delivered[socketId[p]][seen'[p]].type = "init"
           /\ ~drawing[p]
           /\ emitted[p] = <<>>) =>
              LET data == delivered[socketId[p]][seen'[p]].payload.canvasData
              IN  IF data = NULL
                  THEN canvas'[p] = <<>>
                  ELSE /\ loading'[p] # <<>>
                       /\ loading'[p][Len(loading'[p])] = data]_vars

\* nothing is on its way: no stroke is open, no image is loading, every
\* event a page sent has been handled and every event sent to a connected
\* page has been handled by it
Quiescent ==
    \A p \in Pages :
        /\ ~drawing[p]
        /\ loading[p] = <<>>
        /\ taken[p] = Len(emitted[p])
        /\ socketId[p] \in connected => seen[p] = Len(delivered[socketId[p]])

\* the pixels of the canvas the store holds
StorePixels ==
    IF state.canvasData = NULL THEN <<>> ELSE Decode(state.canvasData)

\* every page is connected and was hydrated with an empty canvas, has
\* finished one stroke on its blank canvas, and has sent the canvas:update
\* for it and nothing else
EachSentOwnStroke ==
    \A p \in Pages :
        /\ socketId[p] \in connected
        /\ delivered[socketId[p]] # <<>>
        /\ Head(delivered[socketId[p]]).payload.canvasData = NULL
        /\ emitted[p] = << Event("canvas:update", DataURL(<<p>>)) >>

\* C29: whenever nothing is on its way and nobody is drawing, the canvas of
\* every connected page shows the canvas of the store; stated for the case
\* in which every page finished a stroke of its own and sent its
\* canvas:update, and no connection has ended.
C29_CanvasConverges ==
    (Quiescent /\ EachSentOwnStroke /\ disconnected = {}) =>
        \A p \in Pages : socketId[p] \in connected => canvas[p] = StorePixels

\* the sockets a broadcast of this type from socket c is owed to
Audience(type, c) ==
    IF type = "canvas:update" THEN connected \ {c} ELSE connected

\* C21: a connection that can no longer receive neither blocks nor fails the
\* delivery to the others: every broadcast is emitted, in the step that
\* handles its event, to every other registered connection that still
\* receives, and a connection that no longer receives is eventually
\* unregistered.
C21_FailureIsolated ==
    /\ [][\A type \in {"chat:message", "noise:add", "canvas:update",
                        "canvas:clear"} :
            (Handles(type) /\ phase' = "listening") =>
                \A d \in Audience(type, lastEvent'.from) \ Failed :
                    delivered'[d] =
                        Append(delivered[d], Event(type, lastEvent'.payload))]_vars
    /\ \A c \in Conns : (c \in connected \cap Failed) ~> (c \notin connected)

\* a message was broadcast after the beside of a connected socket had
\* failed, and a socket with a lower and one with a higher id got it
C21_Witness ==
    /\ lastEvent.type = "chat:message"
    /\ phase = "listening"
    /\ \E f \in connected \cap Failed : \E d \in connected \ Failed :
          /\ failedAt[f] <= lastEvent.seq
          /\ f < d
          /\ delivered[d] # <<>>
          /\ delivered[d][Len(delivered[d])] = Event("chat:message", lastEvent.payload)

\* C36: each handler changes only its own collection: chat:message leaves
\* the sound log and the canvas as they were, noise:add the message log and
\* the canvas, canvas:update and canvas:clear both logs, and connection and
\* disconnect all three.
C36_HandlersKeepToTheirCollection ==
    [][/\ Handles("chat:message") =>
             /\ state'.sounds = state.sounds
             /\ state'.canvasData = state.canvasData
       /\ Handles("noise:add") =>
             /\ state'.messages = state.messages
             /\ state'.canvasData = state.canvasData
       /\ (Handles("canvas:update") \/ Handles("canvas:clear")) =>
             /\ state'.messages = state.messages
             /\ state'.sounds = state.sounds
       /\ (Handles("connection") \/ Handles("disconnect")) =>
             state' = state]_vars

\* a clip was stored while the message log and the canvas held something,
\* after a socket had disconnected
C36_Witness ==
    /\ lastEvent.type = "noise:add"
    /\ phase = "listening"
    /\ state.canvasData = Str("P")
    /\ state.messages # <<>>
    /\ state.sounds # <<>>
    /\ state.sounds[Len(state.sounds)] = lastEvent.payload
    /\ disconnected # {}
ChatEntries(p) ==
    SelectSeq(chatMessages[p], LAMBDA el : el.class = "chat-message")

ElementsOf(messages) ==
    [i \in 1..Len(messages) |-> CreateChatMessageElement(messages[i])]

\* the events of its current socket the page has handled
HandledBy(p) == SubSeq(delivered[socketId[p]], 1, seen[p])

\* C31: the rendered chat list never holds more than 20 entries; once the
\* page has handled init and some chat:message broadcasts it shows the last
\* 20 of init.messages followed by those broadcasts, in order; and a page
\* that is connected and has handled everything sent to it shows the last 20
\* entries of the server's message log.
C31_ChatListIsLogTail ==
    \A p \in Pages :
       /\ Len(ChatEntries(p)) <= 20
       /\ seen[p] >= 1 =>
             ChatEntries(p) =
                ElementsOf(LastN(HandledBy(p)[1].payload.messages
                                 \o PayloadsOf(HandledBy(p), "chat:message"),
                                 20))
       /\ ( /\ socketId[p] \in connected
            /\ seen[p] >= 1
            /\ seen[p] = Len(delivered[socketId[p]]) ) =>
             ChatEntries(p) = ElementsOf(LastN(state.messages, 20))

C31_Witness ==
    \E p \in Pages :
       /\ socketId[p] \in connected
       /\ seen[p] = Len(delivered[socketId[p]])
       /\ seen[p] >= 3
       /\ Len(chatMessages[p]) = 20
       /\ chatMessages[p][1].name = <<"o", "l", "d">>
       /\ chatMessages[p][19].name = <<"z">>
       /\ chatMessages[p][20].text = <<"y", "o">>
\* C32: a page emits chat:message, noise:add, canvas:update and canvas:clear
\* only in a step in which its connected flag is true: nothing is put on the
\* socket, to be sent or buffered for the reconnect, while the flag is false.
C32_EmitsOnlyWhileConnected ==
    [][\A p \in Pages : emitted'[p] # emitted[p] => clientConnected[p]]_vars
\* C33: no chat:message with a text that is empty after trimming is emitted:
\* a send of blank input emits nothing and leaves the input as typed, and
\* every message emitted carries the trimmed text (not empty), a name that is
\* not empty ('anonymous' when the name typed is blank), and clears the input.
C33_NoBlankChat ==
    [][\A p \in Pages :
          /\ emitted'[p] # emitted[p] =>
                LET m == emitted'[p][Len(emitted'[p])].payload
                IN  /\ m.text # <<>>
                    /\ Trim(m.text) = m.text
                    /\ m.name # <<>>
                    /\ Trim(m.name) = m.name
                    /\ Trim(nameInput'[p]) = <<>> => m.name = Anonymous
                    /\ messageInput'[p] = <<>>
          /\ (messageInput'[p] # <<>> /\ Trim(messageInput'[p]) = <<>>) =>
                emitted'[p] = emitted[p]]_vars

C33_Witness ==
    \E p, q \in Pages :
       /\ emitted[p] # <<>>
       /\ emitted[p][1].payload.name = Anonymous
       /\ emitted[p][1].payload.text = <<"y", "o">>
       /\ nameInput[p] = <<" ">>
       /\ messageInput[p] = <<>>
       /\ clientConnected[q]
       /\ messageInput[q] = <<" ">>
       /\ emitted[q] = <<>>
       /\ notice[q] = "none"
\* the step is page p handling an event of this type from its socket
Receives(p, type) ==
    /\ seen'[p] = seen[p] + 1
    /\ socketId'[p] = socketId[p]
    /\ delivered[socketId[p]][seen[p] + 1].type = type

\* C34: a canvas:update handled while the page is drawing changes neither
\* the page's canvas nor the images it is decoding, so nothing of it is left
\* to apply; and the end of a stroke paints nothing and decodes nothing.
C34_UpdateDiscardedWhileDrawing ==
    [][\A p \in Pages :
          /\ (drawing[p] /\ Receives(p, "canvas:update")) =>
                /\ canvas'[p] = canvas[p]
                /\ loading'[p] = loading[p]
          /\ (drawing[p] /\ ~drawing'[p]) =>
                /\ canvas'[p] = canvas[p]
                /\ loading'[p] = loading[p]]_vars

C34_Witness ==
    \E p \in Pages :
       /\ ~drawing[p]
       /\ acts = 2
       /\ seen[p] = 2
       /\ socketId[p] \in connected
       /\ delivered[socketId[p]][2].type = "canvas:update"
       /\ Truthy(delivered[socketId[p]][2].payload)
       /\ Decode(delivered[socketId[p]][2].payload) # <<p>>
       /\ emitted[p] = << Event("canvas:update", DataURL(<<p>>)) >>
       /\ canvas[p] = <<p>>
       /\ loading[p] = <<>>
\* C35: at any time at most one recorder of a page is started and not
\* stopped, calls of startRecording that overlap included; the recording
\* flag is true exactly while there is one; a stopRecording with the flag
\* false changes nothing; and a stop leads to at most one noise:add.
C35_OneRecorderAtATime ==
    /\ [](\A p \in Pages :
            /\ Cardinality(Running(p)) <= 1
            /\ recording[p] <=> Running(p) # {})
    /\ [][\A p \in Pages :
            /\ (~recording[p] /\ awaiting'[p] = awaiting[p]) =>
                  recorders'[p] = recorders[p]
            /\ Len(emitted'[p]) <= Len(emitted[p]) + 1]_vars
\* an event of src/unnamed/part_000 as backend/server.js would emit it: init
\* without its sounds
WithoutSounds(ev) ==
    IF ev.type = "init"
    THEN Event("init", [messages |-> ev.payload.messages,
                        canvasData |-> ev.payload.canvasData])
    ELSE ev

BurstEnd(k) ==
    \/ k = Len(debounced.calls)
    \/ debounced.calls[k + 1].at - debounced.calls[k].at >= ResizeWait

\* the last calls of the bursts whose wait has run out, oldest first
SettledBursts ==
    SelectSeq([k \in 1..Len(debounced.calls) |-> k],
              LAMBDA k : /\ BurstEnd(k)
                         /\ \/ k < Len(debounced.calls)
                            \/ debounced.timeout = NoTimeout)

====
